---- MODULE Spec2Model ----
(***************************************************************************)
(* Model of z3_recipes: recipes.py (MacroTriple, recipeFormula,            *)
(* getMultipleRecipeModels) and refinement.py (refinement).                *)
(*                                                                         *)
(* The z3 solver is an external collaborator.  It is modelled by what the  *)
(* code uses of it: an ordered list of assertions, check() answering sat   *)
(* with some assignment that satisfies every assertion, unsat when none    *)
(* exists, or unknown when the engine gives up, and model() returning that *)
(* assignment.  Real-valued coefficients range over the grid CoefDomain;   *)
(* per-gram values are exact rationals <<numerator, denominator>>.         *)
(***************************************************************************)
EXTENDS Integers, Sequences, FiniteSets, TLC

VARIABLES pc, ingredients, target, min_bound, max_bound, solver, enumerator,
          max_models, models, count, lastCheck, checks, result, raised,
          printed, calls, given, previous

vars == <<pc, ingredients, target, min_bound, max_bound, solver, enumerator,
          max_models, models, count, lastCheck, checks, result, raised,
          printed, calls, given, previous>>

(***************************************************************************)
(* Bounds of the model.                                                    *)
(***************************************************************************)
\* Coefficient values the solver may assign: 0..MaxCoef.
MaxCoef == 5

\* Longest ingredient list built.
MaxIngredients == 2

\* Largest max_models passed to an enumerator.
MaxModels == 2

\* Most enumerator calls made on one solver object.
MaxCalls == 2

CoefDomain == 0..MaxCoef

\* Constructor calls MacroTriple(name, fat, carbs, protien, gramsPerServing)
\* made for ingredients.
IngredientInputs ==
    { <<"A", 1, 0, 0, 1>>,
      <<"B", 0, 1, 0, 1>>,
      <<"A", 2, 2, 2, 2>>,
      <<"B", 1, 1, 1, 1>>,
      <<"B", 1, 1, 1, 2>>,
      <<"B", 0, 1, 0, -1>>,
      <<"A", 1, 0, 0, 0>> }

\* Constructor calls made for the target.
TargetInputs ==
    { <<"T", 2, 2, 0, 1>>,
      <<"T", 1, 3, 0, 1>>,
      <<"T", 12, 12, 12, 2>>,
      <<"T", 4, 0, 0, 0>> }

\* (min_bound, max_bound) pairs passed to recipeFormula.
BoundPairs == { <<0, 4>>, <<1, 10>>, <<5, 3>> }

Enumerators == {"getMultipleRecipeModels", "refinement"}

(***************************************************************************)
(* Exact rational arithmetic for the per-gram values.                      *)
(***************************************************************************)
Abs(n) == IF n < 0 THEN -n ELSE n

RECURSIVE Gcd(_, _)
Gcd(a, b) == IF b = 0 THEN a ELSE Gcd(b, a % b)

\* n / d for d # 0, in lowest terms with a positive denominator.
Rat(n, d) ==
    LET s == IF d < 0 THEN -1 ELSE 1
        g == Gcd(Abs(n), Abs(d))
    IN  <<(s * n) \div g, (s * d) \div g>>

RAdd(x, y) == Rat(x[1] * y[2] + y[1] * x[2], x[2] * y[2])

RScale(k, x) == Rat(k * x[1], x[2])

RZero == <<0, 1>>

RNeg(x) == x[1] < 0

(***************************************************************************)
(* MacroTriple                                                             *)
(***************************************************************************)
NoProfile == [name |-> "", fat |-> RZero, carbs |-> RZero, protien |-> RZero]

\* MacroTriple.__init__ for gramsPerServing # 0.
MacroTriple(name, fat, carbs, protien, gramsPerServing) ==
    [name    |-> name,
     fat     |-> Rat(fat, gramsPerServing),
     carbs   |-> Rat(carbs, gramsPerServing),
     protien |-> Rat(protien, gramsPerServing)]

\* z3.Real(f"K_{self.name}"): a z3 constant is identified by its name.
Coefficient(name) == "K_" \o name

\* MacroTriple.with_coef / __iter__
with_coef(p) == <<p.fat, p.carbs, p.protien, Coefficient(p.name)>>

(***************************************************************************)
(* Constraints held by the z3 solver.  An assignment (z3 model) is a       *)
(* function from coefficient names to values of CoefDomain.                *)
(***************************************************************************)
\* Variant: coefficient >= min_bound (on the integer grid, > min_bound - 1).
GtNonStrict(v, k) == [op |-> "gt", var |-> v, k |-> k - 1]

\* coefficient > min_bound
Gt(v, k) == [op |-> "gt", var |-> v, k |-> k]

\* coefficient < max_bound
Lt(v, k) == [op |-> "lt", var |-> v, k |-> k]

\* coef1 >= coef2
Ge(l, r) == [op |-> "ge", l |-> l, r |-> r]

\* f_eq == target.fat, with f_eq the sum of coefficient * value over terms
Eq(terms, rhs) == [op |-> "eq", terms |-> terms, rhs |-> rhs]

\* z3.Or(*[d() != model[d] for d in model.decls()])
OrNe(m) == [op |-> "or_ne", m |-> m]

RECURSIVE SumTerms(_, _)
SumTerms(terms, m) ==
    IF terms = <<>> THEN RZero
    ELSE RAdd(RScale(m[Head(terms)[1]], Head(terms)[2]),
              SumTerms(Tail(terms), m))

\* The truth of constraint c under assignment m.
Holds(c, m) ==
    CASE c.op = "gt"    -> m[c.var] > c.k
      [] c.op = "lt"    -> m[c.var] < c.k
      [] c.op = "ge"    -> m[c.l] >= m[c.r]
      [] c.op = "eq"    -> SumTerms(c.terms, m) = c.rhs
      [] c.op = "or_ne" -> \E d \in DOMAIN c.m : m[d] # c.m[d]

\* The z3 constants a constraint mentions.
VarsOf(c) ==
    CASE c.op = "gt"    -> {c.var}
      [] c.op = "lt"    -> {c.var}
      [] c.op = "ge"    -> {c.l, c.r}
      [] c.op = "eq"    -> {c.terms[i][1] : i \in DOMAIN c.terms}
      [] c.op = "or_ne" -> DOMAIN c.m

Vars(cs) == UNION {VarsOf(cs[i]) : i \in DOMAIN cs}

\* The assignments that satisfy every assertion of the solver.
Models(cs) ==
    {m \in [Vars(cs) -> CoefDomain] : \A i \in DOMAIN cs : Holds(cs[i], m)}

(***************************************************************************)
(* recipeFormula                                                           *)
(***************************************************************************)
\* Variant: the constant is named after the position in the list as well.
CoefAtPositional(ings, i) == with_coef(ings[i])[4] \o "_" \o ToString(i)

\* The coefficient with_coef hands out for ingredient i.
CoefAt(ings, i) == with_coef(ings[i])[4]

\* s.add(coefficient > min_bound); s.add(coefficient < max_bound)
FirstBounds(ings, lo, hi) ==
    <<Gt(CoefAt(ings, 1), lo), Lt(CoefAt(ings, 1), hi)>>

\* Variant: the loop over ingredients[1::] adds no bounds.
RestBoundsOmitted(ings, lo, hi) == <<>>

\* The same two bounds for each of ingredients[1::], in list order.
RestBounds(ings, lo, hi) ==
    [j \in 1..(2 * (Len(ings) - 1)) |->
        IF j % 2 = 1 THEN Gt(CoefAt(ings, (j + 1) \div 2 + 1), lo)
                     ELSE Lt(CoefAt(ings, j \div 2 + 1), hi)]

\* Variant: the pair is compared the other way round (coef2 >= coef1).
OrderConstraintsSwapped(ings) ==
    [i \in 1..(Len(ings) - 1) |-> Ge(CoefAt(ings, i + 1), CoefAt(ings, i))]

\* for (.., coef1), (.., coef2) in it.pairwise(ingredients): coef1 >= coef2
OrderConstraints(ings) ==
    [i \in 1..(Len(ings) - 1) |-> Ge(CoefAt(ings, i), CoefAt(ings, i + 1))]

\* Variant: the sums are never accumulated over ingredients[1::].
EquationFirstOnly(ings, k) == <<<<CoefAt(ings, 1), with_coef(ings[1])[k]>>>>

\* f_eq (k = 1), c_eq (k = 2), p_eq (k = 3): coefficient * value, summed
\* over every ingredient.
Equation(ings, k) ==
    [i \in 1..Len(ings) |-> <<CoefAt(ings, i), with_coef(ings[i])[k]>>]

\* Variant: the carbs sum is tied to the target's fat.
TargetConstraintsCrossed(ings, tgt) ==
    <<Eq(Equation(ings, 1), tgt.fat),
      Eq(Equation(ings, 2), tgt.fat),
      Eq(Equation(ings, 3), tgt.protien)>>

\* s.add(f_eq == target.fat) and likewise for carbs and protien
TargetConstraints(ings, tgt) ==
    <<Eq(Equation(ings, 1), tgt.fat),
      Eq(Equation(ings, 2), tgt.carbs),
      Eq(Equation(ings, 3), tgt.protien)>>

\* The assertions of the solver recipeFormula returns (ings non-empty).
recipeFormula(ings, tgt, lo, hi) ==
    FirstBounds(ings, lo, hi) \o RestBounds(ings, lo, hi)
        \o OrderConstraints(ings) \o TargetConstraints(ings, tgt)

(***************************************************************************)
(* getMultipleRecipeModels / refinement                                    *)
(***************************************************************************)
NoModel == <<>>

None == [kind |-> "None", models |-> <<>>]

List(ms) == [kind |-> "list", models |-> ms]

NotReturned == [kind |-> "pending", models |-> <<>>]

\* Variant: the count test admits one iteration more.
LoopCondInclusive(r, cnt, mm) == r = "sat" /\ cnt <= mm

\* Variant: the count test is missing.
LoopCondNoLimit(r, cnt, mm) == r = "sat"

\* while solver.check() == z3.sat and count < max_models
LoopCond(r, cnt, mm) == r = "sat" /\ cnt < mm

\* Variant: each disjunct compares with a value other than the model's.
BlockShifted(model) == OrNe([d \in DOMAIN model |-> model[d] + 1])

\* Variant: the clause is built from an empty list of disjuncts (False), so
\* it excludes every assignment.
BlockEverything(model) == OrNe(NoModel)

\* Variant: each disjunct compares with a value no coefficient takes, so
\* the clause excludes nothing.
BlockVacuous(model) == OrNe([d \in DOMAIN model |-> -1])

\* block = [d() != model[d] for d in model.decls()]; z3.Or(*block)
Block(model) == OrNe(model)

\* Variant: the body never adds the clause to the solver.
GetMultipleIterationNoAdd(r, m, ms, cs, cnt, mm) ==
    IF LoopCond(r, cnt, mm)
      THEN [models |-> Append(ms, m), solver |-> cs,
            count |-> cnt + 1, again |-> TRUE]
      ELSE [models |-> ms, solver |-> cs, count |-> cnt, again |-> FALSE]

\* getMultipleRecipeModels: the while condition on answer r and, when it
\* holds, the loop body on model m; again tells whether the loop goes on.
GetMultipleIteration(r, m, ms, cs, cnt, mm) ==
    IF LoopCond(r, cnt, mm)
      THEN [models |-> Append(ms, m), solver |-> Append(cs, Block(m)),
            count |-> cnt + 1, again |-> TRUE]
      ELSE [models |-> ms, solver |-> cs, count |-> cnt, again |-> FALSE]

\* Variant: refinement's count test admits one iteration more.
RefinementLoopCondInclusive(r, cnt, mm) == r = "sat" /\ cnt <= mm

\* refinement: while solver.check() == z3.sat and count < max_models
RefinementLoopCond(r, cnt, mm) == r = "sat" /\ cnt < mm

\* refinement: block.append(d() != model[d]) over model.decls(); z3.Or(*block)
RefinementBlock(model) == OrNe(model)

\* refinement: the same step of its own loop.
RefinementIteration(r, m, ms, cs, cnt, mm) ==
    IF RefinementLoopCond(r, cnt, mm)
      THEN [models |-> Append(ms, m),
            solver |-> Append(cs, RefinementBlock(m)),
            count |-> cnt + 1, again |-> TRUE]
      ELSE [models |-> ms, solver |-> cs, count |-> cnt, again |-> FALSE]

Iteration(e, r, m, ms, cs, cnt, mm) ==
    IF e = "refinement" THEN RefinementIteration(r, m, ms, cs, cnt, mm)
    ELSE GetMultipleIteration(r, m, ms, cs, cnt, mm)

\* Variant: refinement returns the empty list like getMultipleRecipeModels.
ReturnValueListOnly(e, ms) == List(ms)

\* The value returned after the loop.
ReturnValue(e, ms) ==
    IF Len(ms) = 0 /\ e = "refinement" THEN None ELSE List(ms)

\* The message printed after the loop ("" when nothing is printed).
PrintedMessage(e, ms) ==
    IF Len(ms) # 0 THEN ""
    ELSE IF e = "refinement" THEN "No satisfying assignments found."
    ELSE "No recipes found."

(***************************************************************************)
(* The program: build the ingredient list and the target, call             *)
(* recipeFormula, call an enumerator on the solver it returns.             *)
(***************************************************************************)
Init ==
    /\ pc = "ingredients"
    /\ ingredients = <<>>
    /\ target = NoProfile
    /\ min_bound = 0
    /\ max_bound = 0
    /\ solver = <<>>
    /\ enumerator = ""
    /\ max_models = 0
    /\ models = <<>>
    /\ count = 0
    /\ lastCheck = "none"
    /\ checks = 0
    /\ result = NotReturned
    /\ raised = "none"
    /\ printed = ""
    /\ calls = 0
    /\ given = <<>>
    /\ previous = <<>>

\* MacroTriple(...) appended to the ingredient list; the division raises
\* ZeroDivisionError when gramsPerServing is 0.
NewIngredient(inp) ==
    /\ pc = "ingredients"
    /\ Len(ingredients) < MaxIngredients
    /\ IF inp[5] = 0
         THEN /\ raised' = "ZeroDivisionError"
              /\ pc' = "raised"
              /\ UNCHANGED ingredients
         ELSE /\ ingredients' = Append(ingredients,
                    MacroTriple(inp[1], inp[2], inp[3], inp[4], inp[5]))
              /\ UNCHANGED <<pc, raised>>
    /\ UNCHANGED <<target, min_bound, max_bound, solver, enumerator,
                   max_models, models, count, lastCheck, checks, result,
                   printed, calls, given, previous>>

\* Target = MacroTriple(...)
NewTarget(inp) ==
    /\ pc = "ingredients"
    /\ IF inp[5] = 0
         THEN /\ raised' = "ZeroDivisionError"
              /\ pc' = "raised"
              /\ UNCHANGED target
         ELSE /\ target' = MacroTriple(inp[1], inp[2], inp[3], inp[4], inp[5])
              /\ pc' = "formula"
              /\ UNCHANGED raised
    /\ UNCHANGED <<ingredients, min_bound, max_bound, solver, enumerator,
                   max_models, models, count, lastCheck, checks, result,
                   printed, calls, given, previous>>

\* formula = recipeFormula(Ingredients, Target, min_bound=.., max_bound=..);
\* ingredients[0] raises IndexError on an empty list.
CallRecipeFormula(b) ==
    /\ pc = "formula"
    /\ min_bound' = b[1]
    /\ max_bound' = b[2]
    /\ IF Len(ingredients) = 0
         THEN /\ raised' = "IndexError"
              /\ pc' = "raised"
              /\ UNCHANGED solver
         ELSE /\ solver' = recipeFormula(ingredients, target, b[1], b[2])
              /\ pc' = "enumerate"
              /\ UNCHANGED raised
    /\ UNCHANGED <<ingredients, target, enumerator, max_models, models,
                   count, lastCheck, checks, result, printed, calls, given,
                   previous>>

\* all_models = getMultipleRecipeModels(formula, max_models=mm), or the same
\* call of refinement: models = [], count = 0.  The caller may call an
\* enumerator again on the solver object an earlier call returned from.
\* given is the solver's assertions when the call is made, previous the
\* models earlier calls on this solver collected; checks, lastCheck, result
\* and printed describe the call in progress.
CallEnumerator(e, mm) ==
    /\ \/ pc = "enumerate"
       \/ pc = "done" /\ calls < MaxCalls
    /\ enumerator' = e
    /\ max_models' = mm
    /\ models' = <<>>
    /\ count' = 0
    /\ pc' = "loop"
    /\ calls' = calls + 1
    /\ given' = solver
    /\ previous' = previous \o models
    /\ checks' = 0
    /\ lastCheck' = "none"
    /\ result' = NotReturned
    /\ printed' = ""
    /\ UNCHANGED <<ingredients, target, min_bound, max_bound, solver, raised>>

\* One evaluation of the while condition with check() answering r (and
\* model() answering m when r is sat), followed by the loop body when the
\* condition holds.
LoopStep(r, m) ==
    /\ pc = "loop"
    /\ checks' = checks + 1
    /\ lastCheck' = r
    /\ LET it == Iteration(enumerator, r, m, models, solver, count,
                           max_models)
       IN  /\ models' = it.models
           /\ solver' = it.solver
           /\ count' = it.count
           /\ pc' = IF it.again THEN "loop" ELSE "after_loop"
    /\ UNCHANGED <<ingredients, target, min_bound, max_bound, enumerator,
                   max_models, result, raised, printed, calls, given,
                   previous>>

\* solver.check() == z3.sat, solver.model() == m
CheckSat(m) ==
    /\ m \in Models(solver)
    /\ LoopStep("sat", m)

\* solver.check() == z3.unsat
CheckUnsat ==
    /\ Models(solver) = {}
    /\ LoopStep("unsat", NoModel)

\* solver.check() == z3.unknown: the engine gave up
CheckUnknown ==
    /\ LoopStep("unknown", NoModel)

\* if len(models) == 0: print(...) [return None]; return models
Return ==
    /\ pc = "after_loop"
    /\ printed' = PrintedMessage(enumerator, models)
    /\ result' = ReturnValue(enumerator, models)
    /\ pc' = "done"
    /\ UNCHANGED <<ingredients, target, min_bound, max_bound, solver,
                   enumerator, max_models, models, count, lastCheck, checks,
                   raised, calls, given, previous>>

Next ==
    \/ \E inp \in IngredientInputs : NewIngredient(inp)
    \/ \E inp \in TargetInputs : NewTarget(inp)
    \/ \E b \in BoundPairs : CallRecipeFormula(b)
    \/ \E e \in Enumerators, mm \in 0..MaxModels : CallEnumerator(e, mm)
    \/ \E m \in Models(solver) : CheckSat(m)
    \/ CheckUnsat
    \/ CheckUnknown
    \/ Return

Spec == Init /\ [][Next]_vars

\* One evaluation of the while condition, whatever the solver answers.
Check ==
    /\ pc = "loop"
    /\ \/ CheckUnknown
       \/ CheckUnsat
       \/ \E m \in Models(solver) : CheckSat(m)

\* The program is sequential and every check() returns: the loop condition
\* is evaluated again whenever the loop is at its head.
LiveSpec == Spec /\ WF_vars(Check)

(***************************************************************************)
(* Properties                                                              *)
(***************************************************************************)
\* The sequence an enumerator has returned (empty when it returned None).
Returned == result.models

Done == pc = "done"

\* recipeFormula has been called (it returned or it raised).
FormulaCalled ==
    \/ pc \in {"enumerate", "loop", "after_loop", "done"}
    \/ pc = "raised" /\ raised # "ZeroDivisionError"

\* The sum over ingredients 1..n of coefficient * per-gram value of macro k
\* ("fat", "carbs" or "protien") under assignment m.
RECURSIVE MacroSum(_, _, _)
MacroSum(m, k, n) ==
    IF n = 0 THEN RZero
    ELSE RAdd(MacroSum(m, k, n - 1),
              RScale(m[Coefficient(ingredients[n].name)], ingredients[n][k]))

\* C1: the sequence an enumerator returns is never longer than max_models.
C1_AtMostMaxModels == Done => Len(Returned) <= max_models

\* C1 witness: the limit stopped the loop while the system was still
\* satisfiable, and max_models models were returned.
C1_Witness ==
    /\ Done
    /\ max_models >= 1
    /\ lastCheck = "sat"
    /\ Len(Returned) = max_models

\* C2: two models at distinct positions of the returned sequence differ in
\* the value of at least one coefficient.
C2_NoDuplicates ==
    Done => \A i, j \in 1..Len(Returned) :
                i < j => \E d \in DOMAIN Returned[i] :
                            Returned[j][d] # Returned[i][d]

\* C2 witness: two models were returned.
C2_Witness == Done /\ Len(Returned) >= 2

\* C3: every returned model satisfies the three macro equalities against
\* the target.
C3_MacroEqualities ==
    Done => \A i \in 1..Len(Returned) :
                /\ MacroSum(Returned[i], "fat", Len(ingredients)) = target.fat
                /\ MacroSum(Returned[i], "carbs", Len(ingredients))
                       = target.carbs
                /\ MacroSum(Returned[i], "protien", Len(ingredients))
                       = target.protien

\* C3 witness: a second model, found after a blocking clause was added, was
\* returned for a two-ingredient recipe with a non-zero target.
C3_Witness ==
    /\ Done
    /\ Len(Returned) >= 2
    /\ Len(ingredients) >= 2
    /\ target.fat # RZero

\* C4: in every returned model each ingredient's coefficient is at least the
\* coefficient of the ingredient that follows it in the list.
C4_Ordering ==
    Done => \A i \in 1..Len(Returned) :
                \A n \in 1..(Len(ingredients) - 1) :
                    Returned[i][Coefficient(ingredients[n].name)]
                        >= Returned[i][Coefficient(ingredients[n + 1].name)]

\* C4 witness: a returned model gives the first of two differently named
\* ingredients a strictly larger coefficient than the second.
C4_Witness ==
    /\ Done
    /\ Len(ingredients) = 2
    /\ \E i \in 1..Len(Returned) :
           Returned[i][Coefficient(ingredients[1].name)]
               > Returned[i][Coefficient(ingredients[2].name)]

\* C5: in every returned model every ingredient's coefficient lies strictly
\* between min_bound and max_bound.
C5_StrictBounds ==
    Done => \A i \in 1..Len(Returned) :
                \A n \in 1..Len(ingredients) :
                    LET v == Returned[i][Coefficient(ingredients[n].name)]
                    IN  min_bound < v /\ v < max_bound

\* C5 witness: a returned model puts the first ingredient just below
\* max_bound and the second just above min_bound.
C5_Witness ==
    /\ Done
    /\ Len(ingredients) = 2
    /\ \E i \in 1..Len(Returned) :
           /\ Returned[i][Coefficient(ingredients[1].name)] = max_bound - 1
           /\ Returned[i][Coefficient(ingredients[2].name)] = min_bound + 1

\* The enumeration ended on an unsatisfiable first check.
FirstCheckUnsat == Done /\ checks = 1 /\ lastCheck = "unsat"

C7_InvalidBoundsRejected ==
    (FormulaCalled /\ Len(ingredients) > 0
        /\ ~(0 < min_bound /\ min_bound < max_bound))
    => (pc = "raised" /\ raised = "InvalidBoundsError")

\* C8: recipeFormula called with an empty ingredient list raises
\* EmptyIngredientListError and returns no solver.
C8_EmptyListRejected ==
    (FormulaCalled /\ Len(ingredients) = 0)
    => (pc = "raised" /\ raised = "EmptyIngredientListError")

\* C9: no profile with a negative per-unit value is ever constructed (a
\* non-positive gramsPerServing is rejected).
C9_NoNegativeProfile ==
    \A p \in {ingredients[n] : n \in 1..Len(ingredients)} \cup {target} :
        ~RNeg(p.fat) /\ ~RNeg(p.carbs) /\ ~RNeg(p.protien)

\* What the caller observes of an enumeration that collected ms and ended on
\* an unsatisfiable check.
UnsatOutcome(e, ms) == <<ReturnValue(e, ms), PrintedMessage(e, ms), "none">>

\* C10: what the caller observes of an enumeration ended by an unknown check
\* differs from what it observes of one ended by an unsatisfiable check with
\* the same models collected.
C10_UnknownDistinct ==
    (Done /\ lastCheck = "unknown")
    => <<result, printed, raised>> # UnsatOutcome(enumerator, models)

\* C11 as stated: after an enumerator returns, the solver the caller passed
\* in holds the constraints it held before the call.
C11_SolverUnchanged == Done => solver = given

\* C11 amended: the blocking clauses stay in the caller's solver, so a later
\* enumeration on the same object returns none of the assignments an earlier
\* one collected, and the solver is as before the call only when the call
\* collected no model.
C11_BlockingPersists ==
    /\ calls >= 2 =>
           \A i \in 1..Len(models), j \in 1..Len(previous) :
               models[i] # previous[j]
    /\ Done => (solver = given <=> Len(models) = 0)

\* C11 witness: a second enumeration on the same solver returned a model
\* after the first one had returned one.
C11_Witness ==
    Done /\ calls = 2 /\ Len(previous) >= 1 /\ Len(Returned) >= 1

\* C12: the loop performs at most max_models + 1 checks, leaves only after
\* a check that was not sat or with count at max_models, and always leaves.
C12_Terminates ==
    /\ [](checks <= max_models + 1)
    /\ [](pc = "after_loop" => (lastCheck # "sat" \/ count = max_models))
    /\ (pc = "loop" ~> pc = "after_loop")

\* C12 witness: the loop ended on the count test after max_models + 1
\* checks, the last of them sat.
C12_Witness ==
    /\ pc = "after_loop"
    /\ max_models >= 1
    /\ count = max_models
    /\ checks = max_models + 1
    /\ lastCheck = "sat"

\* The value an enumerator returns for a system whose first check is unsat.
UnsatisfiableResult(e) == ReturnValue(e, <<>>)

\* C13: the value returned for max_models = 0 on a satisfiable system
\* differs from the value returned for an unsatisfiable system.
C13_CausesDistinct ==
    (Done /\ max_models = 0 /\ lastCheck = "sat")
    => result # UnsatisfiableResult(enumerator)

\* The two ingredients of the end-to-end scenarios.
IngredientA == MacroTriple("A", 1, 0, 0, 1)

IngredientB == MacroTriple("B", 0, 1, 0, 1)

\* The first enumeration on the system built for ingredient list ings and
\* target masses (f, c, p) with bounds (1, 10) has returned.
ScenarioDone(ings, f, c, p) ==
    /\ Done
    /\ calls = 1
    /\ ingredients = ings
    /\ target = MacroTriple("T", f, c, p, 1)
    /\ min_bound = 1
    /\ max_bound = 10

\* C14: for A, B in order [A, B], target (2, 2, 0) and bounds (1, 10), an
\* enumeration with max_models >= 1 whose checks were all answered sat or
\* unsat returns exactly the assignment coefA = 2, coefB = 2, and the check
\* after its blocking clause is unsat.
C14_UniqueRecipe ==
    (ScenarioDone(<<IngredientA, IngredientB>>, 2, 2, 0)
        /\ max_models >= 1 /\ lastCheck # "unknown")
    => /\ result = List(<<[v \in {"K_A", "K_B"} |-> 2]>>)
       /\ checks = 2
       /\ lastCheck = "unsat"

\* C14 witness: that enumeration has returned, with max_models = 2.
C14_Witness ==
    /\ ScenarioDone(<<IngredientA, IngredientB>>, 2, 2, 0)
    /\ max_models = 2
    /\ lastCheck = "unsat"
    /\ Len(Returned) = 1

\* The assignment the target (1, 3, 0) requires: coefA = 1, coefB = 3.
Required == [v \in {"K_A", "K_B"} |-> IF v = "K_A" THEN 1 ELSE 3]

\* C15 as stated: in order [B, A] with target (1, 3, 0) and bounds (1, 10)
\* no assignment is returned, and the required assignment violates an
\* ordering constraint of the system.
C15_OrderInfeasible ==
    ScenarioDone(<<IngredientB, IngredientA>>, 1, 3, 0)
    => /\ Returned = <<>>
       /\ \E i \in DOMAIN given :
              given[i].op = "ge" /\ ~Holds(given[i], Required)

\* C15 amended: no assignment is returned; the required assignment satisfies
\* the ordering constraint and the three equalities, and is excluded by a
\* strict lower bound (coefA > 1).
C15_BoundInfeasible ==
    ScenarioDone(<<IngredientB, IngredientA>>, 1, 3, 0)
    => /\ Returned = <<>>
       /\ lastCheck # "sat"
       /\ \A i \in DOMAIN given :
              given[i].op \in {"ge", "eq", "lt"} => Holds(given[i], Required)
       /\ \E i \in DOMAIN given :
              given[i].op = "gt" /\ ~Holds(given[i], Required)

\* C15 witness: that enumeration has returned after an unsat first check.
C15_Witness ==
    /\ ScenarioDone(<<IngredientB, IngredientA>>, 1, 3, 0)
    /\ lastCheck = "unsat"
    /\ checks = 1

\* The set of models a sequence holds.
Range(ms) == {ms[i] : i \in 1..Len(ms)}

\* C16: the clause added for a recorded model m removes m and only m from
\* the satisfying assignments, and an enumeration that was never answered
\* unknown and had max_models at least the number of satisfying assignments
\* of the system it was given collects every one of them.
C16_BlocksExactlyOne ==
    /\ [][Len(models') = Len(models) + 1 =>
            /\ models'[Len(models')] \in Models(solver)
            /\ Models(solver') = Models(solver) \ {models'[Len(models')]}]_vars
    /\ []((Done /\ lastCheck # "unknown"
             /\ max_models >= Cardinality(Models(given)))
          => Range(models) = Models(given))

\* C16 witness: a system with two satisfying assignments was enumerated to
\* exhaustion.
C16_Witness ==
    /\ Done
    /\ lastCheck = "unsat"
    /\ Cardinality(Models(given)) = 2
    /\ Len(Returned) = 2

\* C17 as stated: once count has reached max_models no further check is
\* issued.
C17_NoCheckAfterLimit ==
    [][(pc = "loop" /\ max_models >= 1 /\ count = max_models)
           => checks' = checks]_vars

\* C17 amended: once count has reached max_models nothing more is recorded
\* or blocked, but the loop condition issues exactly one further check and
\* then the loop is left whatever the answer.
C17_OneCheckAfterLimit ==
    [][(pc = "loop" /\ count = max_models)
           => /\ checks' = checks + 1
              /\ pc' = "after_loop"
              /\ models' = models
              /\ solver' = solver
              /\ count' = count]_vars

\* C17 witness: an enumeration that reached its limit has returned, having
\* issued one check more than it recorded models.
C17_Witness ==
    /\ Done
    /\ max_models >= 1
    /\ Len(Returned) = max_models
    /\ checks = Len(Returned) + 1

\* C18: every step keeps the solver's constraints as a prefix, a recorded
\* model adds exactly its blocking clause, and a returned enumeration leaves
\* the given constraints followed by one clause per returned model.
C18_OnlyGrows ==
    /\ [][/\ Len(solver) <= Len(solver')
          /\ SubSeq(solver', 1, Len(solver)) = solver
          /\ Len(models') = Len(models) + 1 =>
                 solver' = Append(solver, OrNe(models'[Len(models')]))
          /\ Len(models') # Len(models) + 1 =>
                 (solver' = solver \/ solver = <<>>)]_vars
    /\ [](Done =>
            solver = given \o [i \in 1..Len(models) |-> OrNe(models[i])])

\* C18 witness: refinement returned two models and left two more constraints
\* in the solver than it was given.
C18_Witness ==
    /\ Done
    /\ enumerator = "refinement"
    /\ Len(Returned) = 2
    /\ Len(solver) = Len(given) + 2

\* recipeFormula has returned a solver.
FormulaReturned == pc \in {"enumerate", "loop", "after_loop", "done"}

\* The names of the ingredients.
Names == {ingredients[n].name : n \in 1..Len(ingredients)}

\* C19: the constants of the system recipeFormula built are exactly the
\* K_<name>, one per distinct ingredient name, each carries a lower and an
\* upper bound, and the sums and ordering constraints mention no other.
C19_OneCoefficientPerName ==
    FormulaReturned =>
        /\ Vars(solver) = {Coefficient(nm) : nm \in Names}
        /\ Cardinality(Vars(solver)) = Cardinality(Names)
        /\ \A v \in Vars(solver) :
               /\ \E i \in DOMAIN solver :
                      solver[i].op = "gt" /\ solver[i].var = v
               /\ \E i \in DOMAIN solver :
                      solver[i].op = "lt" /\ solver[i].var = v

\* C19 witness: a model was returned for two different ingredients that
\* carry the same name.
C19_Witness ==
    /\ Done
    /\ Len(ingredients) = 2
    /\ ingredients[1].name = ingredients[2].name
    /\ ingredients[1] # ingredients[2]
    /\ Len(Returned) >= 1
    /\ Cardinality(Vars(solver)) = 1

\* The answers check() and model() can give on the current solver.
Answers ==
    {<<"sat", m>> : m \in Models(solver)}
        \cup {<<"unknown", NoModel>>}
        \cup (IF Models(solver) = {} THEN {<<"unsat", NoModel>>} ELSE {})

\* C20: from the same loop state and the same answer the two enumerators
\* take the same step, and after the loop they return the same value when a
\* model was collected, an empty list against None otherwise.
C20_SameSteps ==
    /\ pc = "loop" =>
           \A a \in Answers :
               RefinementIteration(a[1], a[2], models, solver, count,
                                   max_models)
                 = GetMultipleIteration(a[1], a[2], models, solver, count,
                                        max_models)
    /\ pc = "after_loop" =>
           IF Len(models) > 0
             THEN ReturnValue("refinement", models)
                    = ReturnValue("getMultipleRecipeModels", models)
             ELSE /\ ReturnValue("refinement", models) = None
                  /\ ReturnValue("getMultipleRecipeModels", models)
                         = List(<<>>)

\* C20 witness: refinement is at the head of its loop with one model
\* collected and another satisfying assignment left.
C20_Witness ==
    /\ pc = "loop"
    /\ enumerator = "refinement"
    /\ Len(models) = 1
    /\ count < max_models
    /\ Models(solver) # {}

====
